---- MODULE Spec2Model ----
(***************************************************************************)
(* Model of src/dynamodb_batching.py: the bounded-retry batch fetch        *)
(* (do_batch_get), its caller get_batch_data, and the catch-log-reraise    *)
(* wrappers create_table, fill_table and archive_trades.                   *)
(*                                                                         *)
(* One behaviour is one call of one of these functions: Init picks the     *)
(* function (op) and its arguments, pc is the position inside it.  The     *)
(* vendor service is the environment: every SDK call either answers or     *)
(* raises, and a batch_get_item answer processes any subset of the keys    *)
(* it was asked for.                                                       *)
(***************************************************************************)
EXTENDS Integers, Sequences, FiniteSets, TLC

VARIABLES
    op,           \* the function called: its name
    pc,           \* position inside the call
    orig_keys,    \* do_batch_get: the batch_keys argument as passed in
    batch_keys,   \* do_batch_get: the working key set (table -> set of keys)
    retrieved,    \* do_batch_get: the accumulator (table -> list of items)
    tries,        \* do_batch_get: tries
    sleepy_time,  \* do_batch_get: sleepy_time
    response,     \* do_batch_get: the last response of batch_get_item
    sent,         \* the RequestItems of the last batch_get_item request
    trace,        \* requests, responses and sleeps of do_batch_get, in order
    delivered,    \* per table, the items the service has returned under it
    outcome,      \* "none" while running, then "return" or "raise"
    result,       \* the value returned
    error,        \* the exception in flight or raised ("none": none)
    log,          \* the records handed to the logger, in order
    data,         \* fill_table's table_data / archive_trades' trade_data
    calls         \* the SDK calls of create_table/fill_table/archive_trades

vars == <<op, pc, orig_keys, batch_keys, retrieved, tries, sleepy_time,
          response, sent, trace, delivered, outcome, result, error, log, data,
          calls>>

(* ------------------------------ bounds -------------------------------- *)

\* Keys per table are 1..NumKeys.
NumKeys == 2

\* get_batch_data asks for the first 1..MaxListLen keys of each table.
MaxListLen == 1

\* Items handed to fill_table / archive_trades: lists of length 0..MaxItems.
MaxItems == 2

(* ------------------------ program constants --------------------------- *)

\* one attempt too many
max_tries_plus_one == 5 + 1

max_tries == 5

initial_sleepy_time == 1

backoff_factor == 2

backoff_cap == 32

(* --------------------------- the service ------------------------------ *)

\* The tables a batch may name.  get_batch_data names three (trade, entity,
\* aspect); two are enough for a batch that spans tables.
Tables == {"trade", "entity"}

Keys == 1..NumKeys

\* botocore's ClientError carries a service error code.
ClientErrorCodes == {"ValidationException", "ProvisionedThroughputExceededException"}

\* Table.wait_until_exists raises botocore's WaiterError, which is no ClientError.
WaiterError == "WaiterError"

IsClientError(e) == e \in ClientErrorCodes

\* The ClientError of a well-formed batch_get_item (at most 100 keys, line 65):
\* the service could not process any of the keys.
BatchGetErrors == {"ProvisionedThroughputExceededException"}

None == [Responses |-> <<>>, UnprocessedKeys |-> <<>>]

Min(a, b) == IF a < b THEN a ELSE b

RECURSIVE SortedSeq(_)
\* The keys of a set in ascending order.
SortedSeq(S) ==
    IF S = {} THEN <<>>
    ELSE LET m == CHOOSE x \in S : \A y \in S : x <= y
         IN  <<m>> \o SortedSeq(S \ {m})

\* The item stored in table t under key k.
Item(t, k) == <<t, k>>

\* The items of table t under the keys ks, in key order.
ItemsOf(t, ks) ==
    LET s == SortedSeq(ks)
    IN  [i \in 1..Len(s) |-> Item(t, s[i])]

\* Every (table, key) pair of a RequestItems mapping.
PairsOf(rq) == {<<t, k>> : t \in DOMAIN rq, k \in Keys} \cap
               UNION {{<<t, k>> : k \in rq[t]} : t \in DOMAIN rq}

\* What the service may answer to RequestItems rq: each key is left unprocessed,
\* or processed and found, or processed and missing from its table.  Responses
\* holds the found items of every table with a processed key; UnprocessedKeys
\* holds only the tables with an unprocessed key.  (A response without a
\* 'Responses' entry is read as one with no table in it, line 77.)
Answers(rq) ==
    { LET proc(t)  == {k \in rq[t] : st[<<t, k>>] # "unprocessed"}
          found(t) == {k \in rq[t] : st[<<t, k>>] = "found"}
          unpr(t)  == {k \in rq[t] : st[<<t, k>>] = "unprocessed"}
      IN  [Responses       |-> [t \in {u \in DOMAIN rq : proc(u) # {}} |->
                                   ItemsOf(t, found(t))],
           UnprocessedKeys |-> [t \in {u \in DOMAIN rq : unpr(u) # {}} |-> unpr(t)]]
      : st \in [PairsOf(rq) -> {"unprocessed", "found", "missing"}] }

(* --------------------------- the logger ------------------------------- *)

\* logging formats msg % args when the record is emitted: with arguments, it
\* succeeds only if there are as many as the message has placeholders; a
\* record whose formatting fails is dropped (reported on stderr, not logged).
Formats(placeholders, nargs) == nargs = 0 \/ nargs = placeholders

LogRecord(level, line, placeholders, nargs) ==
    [level |-> level, line |-> line,
     emitted |-> Formats(placeholders, nargs)]

(* ------------------------------ events -------------------------------- *)

\* more: the response reports unprocessed keys; secs: the time slept
Request(rq)  == [ev |-> "request", more |-> FALSE, secs |-> 0]
Response(rs) == [ev |-> "response", more |-> DOMAIN rs.UnprocessedKeys # {}, secs |-> 0]
Sleep(secs)  == [ev |-> "sleep", more |-> FALSE, secs |-> secs]

(* ---------------------------- do_batch_get ---------------------------- *)

\* All the arguments do_batch_get is called with: a non-empty batch.
BatchKeySets ==
    UNION {[D -> (SUBSET Keys) \ {{}}] : D \in (SUBSET Tables) \ {{}}}

\* get_batch_data builds a batch that names every table; its key lists are the
\* leading entries of the data (lines 354-359).
AllTableKeySets == [Tables -> {1..n : n \in 1..Min(MaxListLen, NumKeys)}]

\* The service's side of the exchange: the items of answer rs go on record under
\* the table the service returned them under.
Deliver(d, rs) ==
    [t \in DOMAIN d |->
        d[t] \o (IF t \in DOMAIN rs.Responses THEN rs.Responses[t] ELSE <<>>)]

\* line 73
EmptyRetrieved(bk) == [t \in DOMAIN bk |-> <<>>]

\* every table's list receives the items of every table of the response
MergeAcrossTables(r, rs) ==
    [t \in DOMAIN r |->
        LET RECURSIVE All(_)
            All(D) == IF D = {} THEN <<>>
                      ELSE LET u == CHOOSE x \in D : TRUE
                           IN  rs.Responses[u] \o All(D \ {u})
        IN  r[t] \o All(DOMAIN rs.Responses)]

\* = in place of +=: a table's list is replaced by the response's
MergeOverwrite(r, rs) ==
    [t \in DOMAIN r |->
        IF t \in DOMAIN rs.Responses THEN rs.Responses[t] ELSE r[t]]

\* lines 77-78: retrieved[key] += response['Responses'][key]
Merge(r, rs) ==
    [t \in DOMAIN r |->
        IF t \in DOMAIN rs.Responses THEN r[t] \o rs.Responses[t] ELSE r[t]]

\* the retry is taken whether or not keys are left
HasUnprocessedAlways(unprocessed) == TRUE

\* line 80
HasUnprocessed(unprocessed) == Cardinality(DOMAIN unprocessed) > 0

\* the working key set is not replaced
NarrowKeepsAll(bk, unprocessed) == bk

\* line 81
Narrow(bk, unprocessed) == unprocessed

\* the sleep is not guarded by the number of tries
ShouldSleepAlways(t) == TRUE

\* line 88
ShouldSleep(t) == t < max_tries

\* the mapping returned says whether the tries ran out
ReturnValueMarked(r) ==
    IF tries >= max_tries
    THEN [t \in DOMAIN r \cup {"incomplete"} |-> IF t \in DOMAIN r THEN r[t] ELSE <<>>]
    ELSE r

\* line 95
ReturnValue(r) == r

\* the sleep grows by a step, not by a factor
BackoffLinear(s) == Min(s + backoff_factor, backoff_cap)

\* line 91
Backoff(s) == Min(s * backoff_factor, backoff_cap)

InBatchGet == op \in {"do_batch_get", "get_batch_data"}

\* do_batch_get ends, by `return retrieved` (kind "returned") or by the exception
\* of batch_get_item (kind "raised"): called on its own, that is the outcome of
\* the call; called by get_batch_data, control is back at line 151.
Leave(kind) ==
    IF op = "do_batch_get"
    THEN /\ pc' = "done"
         /\ outcome' = IF kind = "returned" THEN "return" ELSE "raise"
    ELSE /\ pc' = kind
         /\ UNCHANGED outcome

\* lines 70-73
Enter ==
    /\ InBatchGet /\ pc = "enter"
    /\ tries' = 0
    /\ sleepy_time' = initial_sleepy_time
    /\ retrieved' = EmptyRetrieved(batch_keys)
    /\ pc' = "loop"
    /\ UNCHANGED <<sent, op, orig_keys, batch_keys, response, trace, delivered,
                   outcome, result, error, log, data, calls>>

\* lines 74-78: the loop test holds, the request is sent and answered, and the
\* items of the response are merged into the accumulator
BatchGetItem ==
    /\ InBatchGet /\ pc = "loop" /\ tries < max_tries
    /\ \E rs \in Answers(batch_keys) :
          /\ response' = rs
          /\ sent' = batch_keys
          /\ trace' = trace \o <<Request(batch_keys), Response(rs)>>
          /\ delivered' = Deliver(delivered, rs)
          /\ retrieved' = Merge(retrieved, rs)
    /\ pc' = "check"
    /\ UNCHANGED <<op, orig_keys, batch_keys, tries, sleepy_time,
                   outcome, result, error, log, data, calls>>

\* lines 74-75: the request raises a ClientError, which do_batch_get lets through
BatchGetItemRaises ==
    /\ InBatchGet /\ pc = "loop" /\ tries < max_tries
    /\ \E code \in BatchGetErrors : error' = code
    /\ sent' = batch_keys
    /\ trace' = Append(trace, Request(batch_keys))
    /\ Leave("raised")
    /\ UNCHANGED <<op, orig_keys, batch_keys, retrieved, tries, sleepy_time,
                   response, delivered, result, log, data, calls>>

\* lines 79-87
Retry ==
    /\ InBatchGet /\ pc = "check"
    /\ HasUnprocessed(response.UnprocessedKeys)
    /\ batch_keys' = Narrow(batch_keys, response.UnprocessedKeys)
    /\ log' = Append(log, LogRecord("INFO", 84, 1, 1))
    /\ tries' = tries + 1
    /\ pc' = "backoff"
    /\ UNCHANGED <<sent, op, orig_keys, retrieved, sleepy_time, response, trace,
                   delivered, outcome, result, error, data, calls>>

\* lines 88-91
SleepThenRetry ==
    /\ InBatchGet /\ pc = "backoff"
    /\ ShouldSleep(tries)
    /\ log' = Append(log, LogRecord("INFO", 89, 1, 1))
    /\ trace' = Append(trace, Sleep(sleepy_time))
    /\ sleepy_time' = Backoff(sleepy_time)
    /\ pc' = "loop"
    /\ UNCHANGED <<sent, op, orig_keys, batch_keys, retrieved, tries, response,
                   delivered, outcome, result, error, data, calls>>

\* line 88 is false: back to the loop test without sleeping
NoSleep ==
    /\ InBatchGet /\ pc = "backoff"
    /\ ~ShouldSleep(tries)
    /\ pc' = "loop"
    /\ UNCHANGED <<sent, op, orig_keys, batch_keys, retrieved, tries, sleepy_time,
                   response, sent, trace, delivered, outcome, result, error, log, data,
          calls>>

\* lines 92-93
Break ==
    /\ InBatchGet /\ pc = "check"
    /\ ~HasUnprocessed(response.UnprocessedKeys)
    /\ result' = ReturnValue(retrieved)
    /\ Leave("returned")
    /\ UNCHANGED <<sent, op, orig_keys, batch_keys, retrieved, tries, sleepy_time,
                   response, trace, delivered, error, log, data, calls>>

\* line 74 is false, line 95
LoopExit ==
    /\ InBatchGet /\ pc = "loop" /\ ~(tries < max_tries)
    /\ result' = ReturnValue(retrieved)
    /\ Leave("returned")
    /\ UNCHANGED <<sent, op, orig_keys, batch_keys, retrieved, tries, sleepy_time,
                   response, trace, delivered, error, log, data, calls>>

(* --------------------------- get_batch_data --------------------------- *)

\* lines 138-151: the batch is built and do_batch_get is called
GbdBuild ==
    /\ op = "get_batch_data" /\ pc = "gbd_build"
    /\ batch_keys' = orig_keys
    /\ pc' = "enter"
    /\ UNCHANGED <<sent, op, orig_keys, retrieved, tries, sleepy_time, response, trace,
                   delivered, outcome, result, error, log, data, calls>>

RECURSIVE Repeat(_, _)
Repeat(x, n) == IF n = 0 THEN <<>> ELSE <<x>> \o Repeat(x, n - 1)

\* line 155: two placeholders, three arguments
GbdErrorRecord == LogRecord("ERROR", 155, 2, 3)

\* lines 152-153, 158-159: one record per table, then retrieved is returned
GbdReturn ==
    /\ op = "get_batch_data" /\ pc = "returned"
    /\ log' = log \o Repeat(LogRecord("INFO", 153, 2, 2), Cardinality(DOMAIN result))
    /\ outcome' = "return"
    /\ pc' = "done"
    /\ UNCHANGED <<sent, op, orig_keys, batch_keys, retrieved, tries, sleepy_time,
                   response, trace, delivered, result, error, data, calls>>

\* lines 154-157
GbdExcept ==
    /\ op = "get_batch_data" /\ pc = "raised"
    /\ IsClientError(error)
    /\ log' = Append(log, GbdErrorRecord)
    /\ outcome' = "raise"
    /\ pc' = "done"
    /\ UNCHANGED <<sent, op, orig_keys, batch_keys, retrieved, tries, sleepy_time,
                   response, trace, delivered, result, error, data, calls>>

(* ------------------------------ SDK calls ----------------------------- *)

Call(api, table, raised) == [api |-> api, table |-> table, raised |-> raised]

\* What a call of the SDK may raise: a ClientError, or for a waiter a WaiterError.
\* A batch writer that was handed no item sends nothing and raises nothing.
MayRaise(api) ==
    CASE api = "wait_until_exists" -> ClientErrorCodes \cup {WaiterError}
      [] api \in {"put_items", "delete_items"} ->
            IF Len(data) = 0 THEN {} ELSE ClientErrorCodes
      [] OTHER -> ClientErrorCodes

\* One SDK call at position `at`: it answers and control goes to `ok`, or it
\* raises and control goes to the except clause `exc`.
SdkCall(at, api, table, ok, exc, okLog) ==
    /\ pc = at
    /\ \/ /\ calls' = Append(calls, Call(api, table, "none"))
          /\ log' = log \o okLog
          /\ pc' = ok
          /\ UNCHANGED error
       \/ \E e \in MayRaise(api) :
            /\ calls' = Append(calls, Call(api, table, e))
            /\ error' = e
            /\ pc' = exc
            /\ UNCHANGED log
    /\ UNCHANGED <<sent, op, orig_keys, batch_keys, retrieved, tries, sleepy_time,
                   response, trace, delivered, outcome, result, data>>

\* An except ClientError clause that logs the exception and re-raises it.
LogAndReraise(at, line, placeholders, nargs) ==
    /\ pc = at
    /\ IsClientError(error)
    /\ log' = Append(log, LogRecord("ERROR", line, placeholders, nargs))
    /\ outcome' = "raise"
    /\ pc' = "done"
    /\ UNCHANGED <<sent, op, orig_keys, batch_keys, retrieved, tries, sleepy_time,
                   response, trace, delivered, result, error, data, calls>>

\* An exception that no except clause of the function names leaves it as it is.
Propagate(at) ==
    /\ pc = at
    /\ ~IsClientError(error)
    /\ outcome' = "raise"
    /\ pc' = "done"
    /\ UNCHANGED <<sent, op, orig_keys, batch_keys, retrieved, tries, sleepy_time,
                   response, trace, delivered, result, error, log, data, calls>>

\* A return statement.
ReturnAt(at, value) ==
    /\ pc = at
    /\ outcome' = "return"
    /\ result' = value
    /\ pc' = "done"
    /\ UNCHANGED <<sent, op, orig_keys, batch_keys, retrieved, tries, sleepy_time,
                   response, trace, delivered, error, log, data, calls>>

(* ----------------------------- create_table --------------------------- *)

\* lines 38-47
CtCreate ==
    /\ op = "create_table"
    /\ SdkCall("ct_create", "create_table", "new", "ct_wait", "ct_except", <<>>)

\* lines 48-49
CtWait ==
    /\ op = "create_table"
    /\ SdkCall("ct_wait", "wait_until_exists", "new", "ct_return", "ct_except",
               <<LogRecord("INFO", 49, 1, 1)>>)

\* lines 50-52
CtExcept == op = "create_table" /\ LogAndReraise("ct_except", 51, 0, 0)

\* a WaiterError is not caught at line 50
CtPropagate == op = "create_table" /\ Propagate("ct_except")

\* lines 53-54
CtReturn == op = "create_table" /\ ReturnAt("ct_return", "new")

(* ------------------------------ fill_table ---------------------------- *)

\* lines 117-121
FtWrite ==
    /\ op = "fill_table"
    /\ SdkCall("ft_write", "put_items", "table", "ft_return", "ft_except",
               <<LogRecord("INFO", 121, 1, 1)>>)

\* lines 122-124
FtExcept == op = "fill_table" /\ LogAndReraise("ft_except", 123, 1, 1)

\* the function ends without a return statement
FtReturn == op = "fill_table" /\ ReturnAt("ft_return", "None")

(* ---------------------------- archive_trades -------------------------- *)

\* the test of line 202 made in every except clause of a put
SwallowedAnywhere(at, code) == code = "ValidationException"

\* line 202: the one ClientError that is not re-raised; the except clause of
\* the second put (line 219) makes no such test
Swallowed(at, code) == at = "at_except2" /\ code = "ValidationException"

\* lines 178-188
AtCreate ==
    /\ op = "archive_trades"
    /\ SdkCall("at_create", "create_table", "archive", "at_wait", "at_except1",
               <<LogRecord("INFO", 188, 1, 1)>>)

\* line 189
AtWait ==
    /\ op = "archive_trades"
    /\ SdkCall("at_wait", "wait_until_exists", "archive", "at_put1", "at_except1", <<>>)

\* lines 190-192
AtExcept1 == op = "archive_trades" /\ LogAndReraise("at_except1", 191, 1, 1)

\* a WaiterError is not caught at line 190
AtPropagate == op = "archive_trades" /\ Propagate("at_except1")

\* lines 197-200
AtPut1 ==
    /\ op = "archive_trades"
    /\ SdkCall("at_put1", "put_items", "archive", "at_put2", "at_except2",
               <<LogRecord("INFO", 200, 1, 1)>>)

\* The except clause of a put into the archive table: a swallowed error is
\* logged as information and dropped, and control goes on to `next`; any other
\* ClientError is logged and re-raised.
PutExcept(at, next, line, placeholders, nargs) ==
    /\ pc = at
    /\ IsClientError(error)
    /\ IF Swallowed(at, error)
       THEN /\ log' = Append(log, LogRecord("INFO", 203, 0, 0))
            /\ error' = "none"
            /\ pc' = next
            /\ UNCHANGED outcome
       ELSE /\ log' = Append(log, LogRecord("ERROR", line, placeholders, nargs))
            /\ outcome' = "raise"
            /\ pc' = "done"
            /\ UNCHANGED error
    /\ UNCHANGED <<sent, op, orig_keys, batch_keys, retrieved, tries, sleepy_time,
                   response, trace, delivered, result, data, calls>>

\* lines 201-210
AtExcept2 ==
    op = "archive_trades" /\ PutExcept("at_except2", "at_put2", 207, 0, 0)

\* lines 215-218
AtPut2 ==
    /\ op = "archive_trades"
    /\ SdkCall("at_put2", "put_items", "archive", "at_delete", "at_except3",
               <<LogRecord("INFO", 218, 1, 1)>>)

\* lines 219-222
AtExcept3 ==
    op = "archive_trades" /\ PutExcept("at_except3", "at_delete", 220, 1, 1)

\* lines 225-229
AtDelete ==
    /\ op = "archive_trades"
    /\ SdkCall("at_delete", "delete_items", "source", "at_return", "at_except4",
               <<LogRecord("INFO", 229, 1, 1)>>)

\* lines 230-233
AtExcept4 == op = "archive_trades" /\ LogAndReraise("at_except4", 231, 1, 1)

\* line 235
AtReturn == op = "archive_trades" /\ ReturnAt("at_return", "archive")

(* --------------------------- the whole program ------------------------ *)

Ops == {"do_batch_get", "get_batch_data", "create_table", "fill_table",
        "archive_trades"}

StartPc(o) ==
    CASE o = "do_batch_get"   -> "enter"
      [] o = "get_batch_data" -> "gbd_build"
      [] o = "create_table"   -> "ct_create"
      [] o = "fill_table"     -> "ft_write"
      [] o = "archive_trades" -> "at_create"

\* table_data / trade_data: a list of items, duplicates allowed (line 373)
ItemLists == UNION {[1..n -> Keys] : n \in 0..MaxItems}

Init ==
    /\ op \in Ops
    /\ pc = StartPc(op)
    /\ orig_keys \in (CASE op = "do_batch_get"   -> BatchKeySets
                        [] op = "get_batch_data" -> AllTableKeySets
                        [] OTHER                 -> {<<>>})
    /\ batch_keys = IF op = "do_batch_get" THEN orig_keys ELSE <<>>
    /\ data \in (IF op \in {"fill_table", "archive_trades"} THEN ItemLists ELSE {<<>>})
    /\ retrieved = <<>>
    /\ tries = 0
    /\ sleepy_time = 0
    /\ response = None
    /\ sent = <<>>
    /\ trace = <<>>
    /\ delivered = EmptyRetrieved(orig_keys)
    /\ outcome = "none"
    /\ result = <<>>
    /\ error = "none"
    /\ log = <<>>
    /\ calls = <<>>

Next ==
    \/ Enter
    \/ BatchGetItem
    \/ BatchGetItemRaises
    \/ Retry
    \/ SleepThenRetry
    \/ NoSleep
    \/ Break
    \/ LoopExit
    \/ GbdBuild
    \/ GbdReturn
    \/ GbdExcept
    \/ CtCreate
    \/ CtWait
    \/ CtExcept
    \/ CtPropagate
    \/ CtReturn
    \/ FtWrite
    \/ FtExcept
    \/ FtReturn
    \/ AtCreate
    \/ AtWait
    \/ AtExcept1
    \/ AtPropagate
    \/ AtPut1
    \/ AtExcept2
    \/ AtPut2
    \/ AtExcept3
    \/ AtDelete
    \/ AtExcept4
    \/ AtReturn

Spec == Init /\ [][Next]_vars

(* ------------------------------ the claims ---------------------------- *)

Events(kind) == SelectSeq(trace, LAMBDA e : e.ev = kind)

NumOf(kind) == Cardinality({i \in 1..Len(trace) : trace[i].ev = kind})

SleepDurations == [i \in 1..NumOf("sleep") |-> Events("sleep")[i].secs]

\* Every response so far reported unprocessed keys.
AllUnprocessed == \A i \in 1..Len(trace) : trace[i].ev = "response" => trace[i].more

\* do_batch_get has returned (to its caller, or as the whole call).
BatchGetReturned ==
    /\ InBatchGet
    /\ pc = "returned" \/ (pc = "done" /\ outcome = "return")

IsPrefix(a, b) == Len(a) <= Len(b) /\ SubSeq(b, 1, Len(a)) = a

\* C1: when every response reports unprocessed keys, do_batch_get never sends a
\* sixth request, never sleeps after the fifth, has sent exactly five when it
\* returns, and after the fifth it is never stuck before it ends.
C1_FiveAttemptsNoFinalSleep ==
    /\ (InBatchGet /\ AllUnprocessed) =>
          /\ NumOf("request") <= 5
          /\ NumOf("request") = 5 => NumOf("sleep") = 4
          /\ BatchGetReturned =>
                /\ NumOf("request") = 5
                /\ trace[Len(trace)].ev = "response"
    /\ (InBatchGet /\ AllUnprocessed /\ NumOf("request") = 5 /\ pc # "done") =>
          ENABLED Next

C1_Witness ==
    /\ op = "do_batch_get" /\ pc = "done" /\ outcome = "return"
    /\ AllUnprocessed /\ NumOf("response") = 5

\* C2: a response with no unprocessed keys is the last event of the exchange (no
\* request and no sleep follows it); when it is the first response, there was
\* exactly one request and no sleep.
C2_StopsAtFirstEmpty ==
    InBatchGet =>
       /\ \A i \in 1..Len(trace) :
             (trace[i].ev = "response" /\ ~trace[i].more) => i = Len(trace)
       /\ (Len(trace) >= 2 /\ ~trace[2].more) =>
             (NumOf("request") = 1 /\ NumOf("sleep") = 0)

C2_Witness ==
    /\ op = "do_batch_get" /\ pc = "done" /\ outcome = "return"
    /\ NumOf("request") = 1 /\ NumOf("response") = 1 /\ ~trace[2].more

\* C3 as stated: a run whose every response reports unprocessed keys sleeps
\* 1, 2, 4, 8, 16 seconds.
C3_Original ==
    (BatchGetReturned /\ AllUnprocessed) => SleepDurations = <<1, 2, 4, 8, 16>>

\* C3 as amended: such a run sleeps four times, 1, 2, 4, 8 seconds; in every run
\* the first sleep is 1 second, each later sleep is double the one before, and no
\* sleep exceeds 32 seconds.
C3_BackoffSequence ==
    InBatchGet =>
       LET d == SleepDurations
       IN  /\ (BatchGetReturned /\ AllUnprocessed) => d = <<1, 2, 4, 8>>
           /\ \A i \in 1..Len(d) :
                 /\ d[i] <= 32
                 /\ i = 1 => d[i] = 1
                 /\ i > 1 => d[i] = 2 * d[i - 1]

C3_Witness ==
    /\ op = "do_batch_get" /\ pc = "done" /\ outcome = "return"
    /\ AllUnprocessed /\ NumOf("sleep") = 4

\* C4: after every response, the list of every table holds exactly the
\* items the service returned under that table, in the order returned, and
\* holds no item of another table; so does the mapping returned.
C4_Partitioned ==
    (InBatchGet /\ pc \notin {"enter", "gbd_build"}) =>
       /\ DOMAIN retrieved = DOMAIN delivered
       /\ \A t \in DOMAIN retrieved :
             /\ retrieved[t] = delivered[t]
             /\ \A i \in 1..Len(retrieved[t]) : retrieved[t][i][1] = t
       /\ BatchGetReturned => result = delivered

\* a response carried items of two tables and was merged
C4_Witness ==
    /\ InBatchGet /\ pc = "check"
    /\ Cardinality({t \in DOMAIN response.Responses : response.Responses[t] # <<>>}) >= 2
    /\ \A t \in DOMAIN retrieved : retrieved[t] # <<>>

\* C5: a request that follows a response asks for exactly the UnprocessedKeys of
\* that response: no key the response processed, and no key outside them.
C5_RetryAsksUnprocessedOnly ==
    [][(NumOf("request")' > NumOf("request") /\ NumOf("response") > 0) =>
          /\ sent' = response.UnprocessedKeys
          /\ PairsOf(sent') \cap (PairsOf(sent) \ PairsOf(response.UnprocessedKeys)) = {}
          /\ PairsOf(sent') \subseteq PairsOf(response.UnprocessedKeys)]_vars

\* a second request, for fewer keys than the first
C5_Witness ==
    /\ InBatchGet /\ NumOf("request") >= 2
    /\ PairsOf(sent) # PairsOf(orig_keys)
    /\ PairsOf(sent) # {}

\* C6: a run that used its five tries with keys still unprocessed returns
\* normally, and what any run returns is the mapping of accumulated items and
\* nothing else, whether the tries ran out or not.
C6_ExhaustionInvisible ==
    /\ (op = "do_batch_get" /\ pc = "done" /\ NumOf("response") = 5 /\ AllUnprocessed) =>
          (outcome = "return" /\ error = "none")
    /\ BatchGetReturned =>
          /\ result = delivered
          /\ DOMAIN result = DOMAIN orig_keys

\* the tries ran out with some items accumulated
C6_Witness ==
    /\ op = "do_batch_get" /\ pc = "done" /\ outcome = "return"
    /\ NumOf("response") = 5 /\ AllUnprocessed
    /\ \E t \in DOMAIN result : result[t] # <<>>

Puts == SelectSeq(calls, LAMBDA c : c.api = "put_items")

\* C7: in archive_trades a delete on the source table comes right after a put
\* into the archive table that did not raise, and after the creation of the
\* archive table that did not raise; when the creation or the final put raises a
\* ClientError there is no delete.
C7_CopyBeforeDelete ==
    op = "archive_trades" =>
       /\ \A i \in 1..Len(calls) :
             calls[i].api = "delete_items" =>
                /\ calls[i].table = "source"
                /\ i > 1 /\ calls[i - 1] = Call("put_items", "archive", "none")
                /\ \E j \in 1..(i - 1) : calls[j] = Call("create_table", "archive", "none")
       /\ ( \/ \E j \in 1..Len(calls) :
                  calls[j].api = "create_table" /\ IsClientError(calls[j].raised)
            \/ Len(Puts) >= 2 /\ IsClientError(Puts[2].raised) ) =>
             \A i \in 1..Len(calls) : calls[i].api # "delete_items"

\* the first put raised the expected error, the second went through, the delete ran
C7_Witness ==
    /\ op = "archive_trades" /\ pc = "done" /\ outcome = "return"
    /\ Len(Puts) = 2 /\ Puts[1].raised = "ValidationException"
    /\ calls[Len(calls)] = Call("delete_items", "source", "none")

LastLog == log[Len(log)]

\* The swallowed case: ValidationException from the first put into the archive.
IsSwallowedCall(i) ==
    /\ op = "archive_trades"
    /\ calls[i].api = "put_items"
    /\ \A j \in 1..(i - 1) : calls[j].api # "put_items"
    /\ calls[i].raised = "ValidationException"

\* The ClientError of the SDK call was re-raised to the caller.
Reraised(code) == outcome = "raise" /\ error = code

\* The ClientError was logged: the last record is an ERROR record that the
\* logger emitted.
Logged == Len(log) > 0 /\ LastLog.level = "ERROR" /\ LastLog.emitted

\* C8: at the end of create_table, fill_table, get_batch_data and
\* archive_trades, every ClientError that an SDK call raised was logged and
\* re-raised, except a ValidationException of the first put into the archive
\* table, after which the second put was made.
C8_LoggedAndReraised ==
    (pc = "done" /\ op \in {"create_table", "fill_table", "get_batch_data",
                            "archive_trades"}) =>
       /\ \A i \in 1..Len(calls) :
             IsClientError(calls[i].raised) =>
                IF IsSwallowedCall(i)
                THEN Len(calls) > i /\ calls[i + 1].api = "put_items"
                ELSE i = Len(calls) /\ Reraised(calls[i].raised) /\ Logged
       /\ (op = "get_batch_data" /\ NumOf("request") > NumOf("response")) =>
             (IsClientError(error) /\ Reraised(error) /\ Logged)

\* C8 without its "after being logged": every such ClientError is re-raised.
\* This part the code keeps, in get_batch_data as well.
C8_ReraisedOnly ==
    (pc = "done" /\ op \in {"create_table", "fill_table", "get_batch_data",
                            "archive_trades"}) =>
       /\ \A i \in 1..Len(calls) :
             IsClientError(calls[i].raised) =>
                IF IsSwallowedCall(i)
                THEN Len(calls) > i /\ calls[i + 1].api = "put_items"
                ELSE i = Len(calls) /\ Reraised(calls[i].raised)
       /\ (op = "get_batch_data" /\ NumOf("request") > NumOf("response")) =>
             (IsClientError(error) /\ Reraised(error))

\* C8 in full, for the three functions other than get_batch_data.
C8_OtherFunctions == op # "get_batch_data" => C8_LoggedAndReraised

\* C9: in the exchange of do_batch_get every request but the first comes right
\* after a sleep, every sleep right after a response and every response right
\* after a request; at return there is one sleep fewer than requests, and
\* between 1 and 5 requests.
C9_OneSleepBetweenRequests ==
    InBatchGet =>
       /\ \A i \in 1..Len(trace) :
             /\ trace[i].ev = "request" =>
                   (i = 1 \/ (i > 2 /\ trace[i - 1].ev = "sleep"
                                    /\ trace[i - 2].ev = "response"))
             /\ trace[i].ev = "sleep" => (i > 1 /\ trace[i - 1].ev = "response")
             /\ trace[i].ev = "response" => (i > 1 /\ trace[i - 1].ev = "request")
       /\ BatchGetReturned =>
             /\ NumOf("sleep") = NumOf("request") - 1
             /\ NumOf("request") >= 1
             /\ NumOf("request") <= 5

\* a return after a retry, short of exhaustion
C9_Witness ==
    /\ op = "do_batch_get" /\ pc = "done" /\ outcome = "return"
    /\ NumOf("request") = 3 /\ NumOf("sleep") = 2

\* C10: from its first request on, the accumulator of do_batch_get has one entry
\* per table of the batch_keys passed in, no step shortens or changes what a
\* table's list already holds, and the mapping returned is that accumulator.
C10_OneEntryPerTableListsGrow ==
    [][(InBatchGet /\ pc' \notin {"enter", "gbd_build"}) =>
          /\ DOMAIN retrieved' = DOMAIN orig_keys
          /\ \A t \in DOMAIN retrieved : IsPrefix(retrieved[t], retrieved'[t])
          /\ BatchGetReturned' =>
                /\ DOMAIN result' = DOMAIN orig_keys
                /\ \A t \in DOMAIN retrieved : IsPrefix(retrieved[t], result'[t])]_vars

\* returned after the key set was narrowed to one table of two: one list is
\* empty, the other holds items of two attempts in attempt order
C10_Witness ==
    /\ op = "do_batch_get" /\ pc = "done" /\ outcome = "return"
    /\ DOMAIN orig_keys = Tables
    /\ Cardinality(DOMAIN sent) = 1
    /\ \E t \in DOMAIN result : result[t] = <<>>
    /\ \E t \in DOMAIN result : result[t] = <<Item(t, 2), Item(t, 1)>>

====
